---------------------------- MODULE Spec2Model ----------------------------
(***************************************************************************)
(* A model of the tender ingestion pipeline of tender_scraper.py: the      *)
(* Raw_Data worksheet, the three source adapters, and TenderTracker.run(). *)
(*                                                                         *)
(* Text is modelled as a sequence of one-character strings, so that        *)
(* Python's substring test, lower(), replace(), strip() and strptime() are *)
(* computed on the characters as the code computes them.                   *)
(***************************************************************************)
EXTENDS Integers, Sequences, FiniteSets, TLC

(***************************************************************************)
(* Bounds of the model.                                                    *)
(***************************************************************************)
\* listings present upstream, over all three portals together
MaxListings == 2
\* invocations of TenderTracker.run() in one behaviour
MaxRuns == 2
\* listings present upstream in the behaviours checked for liveness
LiveListings == 1

(***************************************************************************)
(* Characters and strings.                                                 *)
(***************************************************************************)
UpperCase ==
    <<"A","B","C","D","E","F","G","H","I","J","K","L","M",
      "N","O","P","Q","R","S","T","U","V","W","X","Y","Z">>

LowerCase ==
    <<"a","b","c","d","e","f","g","h","i","j","k","l","m",
      "n","o","p","q","r","s","t","u","v","w","x","y","z">>

Digits == <<"0","1","2","3","4","5","6","7","8","9">>

Range(f) == {f[i] : i \in DOMAIN f}

\* str.lower() on one character
LowerChar(c) ==
    IF c \in Range(UpperCase)
    THEN LowerCase[CHOOSE i \in DOMAIN UpperCase : UpperCase[i] = c]
    ELSE c

\* str.lower()
lower(s) == [i \in 1..Len(s) |-> LowerChar(s[i])]

\* Python's `kw in text` on strings: kw occurs in text as a substring
Contains(text, kw) ==
    \E i \in 0..(Len(text) - Len(kw)) : SubSeq(text, i + 1, i + Len(kw)) = kw

\* s[:n]
Prefix(s, n) == SubSeq(s, 1, IF n < Len(s) THEN n ELSE Len(s))

IsDigit(c) == c \in Range(Digits)

IsSpace(c) == c = " "

DigitVal(c) == (CHOOSE i \in DOMAIN Digits : Digits[i] = c) - 1

\* str.strip()
RECURSIVE lstrip(_)
lstrip(s) == IF s # <<>> /\ IsSpace(s[1]) THEN lstrip(Tail(s)) ELSE s

RECURSIVE rstrip(_)
rstrip(s) ==
    IF s # <<>> /\ IsSpace(s[Len(s)]) THEN rstrip(SubSeq(s, 1, Len(s) - 1)) ELSE s

strip(s) == lstrip(rstrip(s))

\* str.replace(old, ''), old not empty: every occurrence removed, left to right
RECURSIVE remove(_, _)
remove(s, old) ==
    IF Len(s) < Len(old) THEN s
    ELSE IF SubSeq(s, 1, Len(old)) = old
         THEN remove(SubSeq(s, Len(old) + 1, Len(s)), old)
         ELSE <<s[1]>> \o remove(Tail(s), old)

(***************************************************************************)
(* Configuration (tender_scraper.py, CONFIGURATION section).               *)
(***************************************************************************)
\* The one configured category, in declaration order.  The keyword list is
\* abridged to two of the configured keywords: a lower-case one ("bond") and
\* the one configured with capital letters ("D&O").
CATEGORIES ==
    << [name |-> "insurance",
        keywords |-> << <<"b","o","n","d">>, <<"D","&","O">> >>] >>

\* Abridged to two of the configured buyers.
PRIORITY_BUYERS == << <<"A","R","C">>, <<"C","I","D","B">> >>


(***************************************************************************)
(* datetime.strptime for the five formats the code uses.  A format is      *)
(* compiled by _strptime into a regular expression that is matched at the  *)
(* start of the text, ignoring case, and the text must have nothing left   *)
(* over.  A partial match is a record: p is the next position to read and  *)
(* Y, m, d are the fields read so far; each directive maps a set of        *)
(* partial matches to the set of its continuations.                        *)
(***************************************************************************)
None == <<"None">>

MonthNames ==
    << <<"j","a","n","u","a","r","y">>,
       <<"f","e","b","r","u","a","r","y">>,
       <<"m","a","r","c","h">>,
       <<"a","p","r","i","l">>,
       <<"m","a","y">>,
       <<"j","u","n","e">>,
       <<"j","u","l","y">>,
       <<"a","u","g","u","s","t">>,
       <<"s","e","p","t","e","m","b","e","r">>,
       <<"o","c","t","o","b","e","r">>,
       <<"n","o","v","e","m","b","e","r">>,
       <<"d","e","c","e","m","b","e","r">> >>

MonthAbbrs == [k \in 1..12 |-> SubSeq(MonthNames[k], 1, 3)]

IsLeap(y) == (y % 4 = 0 /\ y % 100 # 0) \/ y % 400 = 0

DaysInMonth(y, m) ==
    IF m = 2 THEN (IF IsLeap(y) THEN 29 ELSE 28)
    ELSE IF m \in {4, 6, 9, 11} THEN 30 ELSE 31

\* the digits of s from position p, n of them, as a number; -1 if they are
\* not all there
RECURSIVE NumAt(_, _, _)
NumAt(s, p, n) ==
    IF n = 0 THEN 0
    ELSE IF p + n - 1 > Len(s) \/ ~IsDigit(s[p + n - 1]) THEN -1
    ELSE LET hi == NumAt(s, p, n - 1)
         IN  IF hi < 0 THEN -1 ELSE 10 * hi + DigitVal(s[p + n - 1])

MatchStart == {[p |-> 1, Y |-> 0, m |-> 0, d |-> 0]}

\* a literal character of the format
MLit(s, S, c) ==
    {[r EXCEPT !.p = r.p + 1] : r \in {x \in S : x.p <= Len(s) /\ s[x.p] = c}}

\* white space in the format: \s+
MSpace(s, S) ==
    UNION {{[r EXCEPT !.p = q] :
               q \in {q \in (r.p + 1)..(Len(s) + 1) :
                         \A i \in r.p..(q - 1) : IsSpace(s[i])}} : r \in S}

\* %Y: \d\d\d\d
MY(s, S) ==
    {[r EXCEPT !.p = r.p + 4, !.Y = NumAt(s, r.p, 4)] :
        r \in {x \in S : NumAt(s, x.p, 4) >= 0}}

\* %m: 1[0-2]|0[1-9]|[1-9]
Mm(s, S) ==
    {[r EXCEPT !.p = r.p + 2, !.m = NumAt(s, r.p, 2)] :
        r \in {x \in S : NumAt(s, x.p, 2) \in 1..12}}
    \cup
    {[r EXCEPT !.p = r.p + 1, !.m = NumAt(s, r.p, 1)] :
        r \in {x \in S : NumAt(s, x.p, 1) \in 1..9}}

\* %d: 3[0-1]|[1-2]\d|0[1-9]|[1-9]| [1-9]
Md(s, S) ==
    {[r EXCEPT !.p = r.p + 2, !.d = NumAt(s, r.p, 2)] :
        r \in {x \in S : NumAt(s, x.p, 2) \in 1..31}}
    \cup
    {[r EXCEPT !.p = r.p + 1, !.d = NumAt(s, r.p, 1)] :
        r \in {x \in S : NumAt(s, x.p, 1) \in 1..9}}
    \cup
    {[r EXCEPT !.p = r.p + 2, !.d = NumAt(s, r.p + 1, 1)] :
        r \in {x \in S : x.p <= Len(s) /\ s[x.p] = " "
                           /\ NumAt(s, x.p + 1, 1) \in 1..9}}

\* %B and %b: a month name of the table, in any letter case
MName(s, S, names) ==
    UNION {{[r EXCEPT !.p = r.p + Len(names[k]), !.m = k] :
               k \in {k \in 1..12 :
                         /\ r.p + Len(names[k]) - 1 <= Len(s)
                         /\ lower(SubSeq(s, r.p, r.p + Len(names[k]) - 1)) = names[k]}}
           : r \in S}

MatchFormat(s, fmt) ==
    CASE fmt = "%Y-%m-%d" ->
            Md(s, MLit(s, Mm(s, MLit(s, MY(s, MatchStart), "-")), "-"))
      [] fmt = "%d/%m/%Y" ->
            MY(s, MLit(s, Mm(s, MLit(s, Md(s, MatchStart), "/")), "/"))
      [] fmt = "%d-%m-%Y" ->
            MY(s, MLit(s, Mm(s, MLit(s, Md(s, MatchStart), "-")), "-"))
      [] fmt = "%d %B %Y" ->
            MY(s, MSpace(s, MName(s, MSpace(s, Md(s, MatchStart)), MonthNames)))
      [] fmt = "%d %b %Y" ->
            MY(s, MSpace(s, MName(s, MSpace(s, Md(s, MatchStart)), MonthAbbrs)))

\* datetime.strptime(s, fmt): the set of dates it returns, empty when it
\* raises ValueError (no match, text left over, or no such calendar day)
strptime(s, fmt) ==
    {[Y |-> r.Y, m |-> r.m, d |-> r.d] :
        r \in {x \in MatchFormat(s, fmt) :
                  /\ x.p = Len(s) + 1
                  /\ x.Y >= 1
                  /\ x.d <= DaysInMonth(x.Y, x.m)}}

\* the decimal digits of n >= 0, at least w of them (zero-filled)
RECURSIVE zfill(_, _)
zfill(n, w) ==
    IF n < 10 /\ w <= 1 THEN <<Digits[n + 1]>>
    ELSE zfill(n \div 10, w - 1) \o <<Digits[(n % 10) + 1]>>

\* date.strftime('%Y-%m-%d')
strftime(date) ==
    zfill(date.Y, 4) \o <<"-">> \o zfill(date.m, 2) \o <<"-">> \o zfill(date.d, 2)

\* re.match(r'\d{4}-\d{2}-\d{2}', s): the pattern at the start of s
MatchesIsoPrefix(s) ==
    /\ Len(s) >= 10
    /\ \A i \in {1, 2, 3, 4, 6, 7, 9, 10} : IsDigit(s[i])
    /\ s[5] = "-" /\ s[8] = "-"

\* the list without its last format
Formats_short == <<"%Y-%m-%d", "%d/%m/%Y", "%d-%m-%Y", "%d %B %Y">>

Formats == <<"%Y-%m-%d", "%d/%m/%Y", "%d-%m-%Y", "%d %B %Y", "%d %b %Y">>

Closing == <<"C","l","o","s","i","n","g",":">>

RECURSIVE try_formats(_, _)
RECURSIVE first_success(_, _, _)
\* the loop over formats from the i-th on: the dates parsed by the first
\* format that succeeds (none if they all raise ValueError)
try_formats(clean, i) ==
    IF i > Len(Formats) THEN {}
    ELSE first_success(strptime(clean, Formats[i]), clean, i)

first_success(parsed, clean, i) ==
    IF parsed # {} THEN parsed ELSE try_formats(clean, i + 1)

\* what follows the loop, parsed being the dates the loop parsed: the
\* return inside the loop, or the re.search after it.  The module never
\* imports re at top level (other methods import it locally), so the
\* re.search raises NameError.
parse_result(parsed) ==
    IF parsed # {}
    THEN [exc |-> FALSE, val |-> strftime(CHOOSE x \in parsed : TRUE)]
    ELSE [exc |-> TRUE, val |-> None]

\* GoogleSheetsManager._parse_date_flexible.  The result is [exc, val]:
\* exc says that an exception leaves the method, val is the value returned.
_parse_date_flexible(date_str) ==
    IF date_str = <<>> THEN [exc |-> FALSE, val |-> None]
    ELSE parse_result(try_formats(strip(remove(date_str, Closing)), 1))

(***************************************************************************)
(* BaseScraper helpers.                                                    *)
(***************************************************************************)
\* BaseScraper.categorize_tender
categorize_tender(title, description) ==
    LET text == lower(title \o <<" ">> \o description)
        hits == {i \in DOMAIN CATEGORIES :
                    \E k \in DOMAIN CATEGORIES[i].keywords :
                        Contains(text, CATEGORIES[i].keywords[k])}
    IN  IF hits = {} THEN "uncategorized"
        ELSE CATEGORIES[CHOOSE i \in hits : \A j \in hits : i <= j].name

\* any(pb.lower() in buyer.lower() for pb in PRIORITY_BUYERS)
is_priority_buyer(buyer) ==
    \E i \in DOMAIN PRIORITY_BUYERS :
        Contains(lower(buyer), lower(PRIORITY_BUYERS[i]))

\* Python's hash() of a str, reduced as the code reduces it (% HashWidth).
\* CPython salts str hashes with a seed drawn when the interpreter starts,
\* so the value is a function of the text and of the process's seed; the
\* empty string hashes to 0 under every seed.  The mixing function stands
\* for SipHash: only its dependence on (seed, text) matters here.
HashWidth == 10000

CharCode(c) ==
    LET all == UpperCase \o LowerCase \o Digits
    IN  IF c \in Range(all) THEN CHOOSE i \in DOMAIN all : all[i] = c ELSE 0

RECURSIVE Mix(_, _)
Mix(h, s) ==
    IF s = <<>> THEN h
    ELSE Mix((h * 31 + CharCode(s[1]) + 7) % 1000003, Tail(s))

hash_mod(seed, s) ==
    IF s = <<>> THEN 0 ELSE Mix(seed * 7919 + 17, s) % HashWidth

\* closing_raw.split('T')[0]
RECURSIVE split_T_first(_)
split_T_first(s) ==
    IF s = <<>> \/ s[1] = "T" THEN <<>> ELSE <<s[1]>> \o split_T_first(Tail(s))

IsAlpha(c) == LowerChar(c) \in Range(LowerCase)

\* the days as they are before max(0, .)
Max0_unclamped(n) == n

\* max(0, n)
Max0(n) == IF n > 0 THEN n ELSE 0

\* date.toordinal(): the day's number in the proleptic Gregorian calendar
DaysBeforeYear(y) ==
    (y - 1) * 365 + (y - 1) \div 4 - (y - 1) \div 100 + (y - 1) \div 400

RECURSIVE DaysBeforeMonth(_, _)
DaysBeforeMonth(y, m) ==
    IF m = 1 THEN 0 ELSE DaysBeforeMonth(y, m - 1) + DaysInMonth(y, m - 1)

toordinal(date) ==
    DaysBeforeYear(date.Y) + DaysBeforeMonth(date.Y, date.m) + date.d

\* (closing - datetime.now()).days.  closing is a date at 00:00, now is
\* [Y, m, d, hour], the clock read in whole hours; timedelta.days is the
\* floor of the difference in days.
days_until(closing, now) ==
    ((toordinal(closing) - toordinal(now)) * 24 - now.hour) \div 24

\* test_date < today, test_date being a date at 00:00
before_now(test_date, now) ==
    \/ toordinal(test_date) < toordinal(now)
    \/ toordinal(test_date) = toordinal(now) /\ now.hour > 0

\* where the run of white space (of letters) that starts at p ends
SpaceEnd(s, p) ==
    CHOOSE q \in p..(Len(s) + 1) :
        /\ \A i \in p..(q - 1) : IsSpace(s[i])
        /\ q = Len(s) + 1 \/ ~IsSpace(s[q])

AlphaEnd(s, p) ==
    CHOOSE q \in p..(Len(s) + 1) :
        /\ \A i \in p..(q - 1) : IsAlpha(s[i])
        /\ q = Len(s) + 1 \/ ~IsAlpha(s[q])

\* \s+([A-Za-z]+) matches at p
RestMatches(s, p) ==
    /\ p <= Len(s)
    /\ IsSpace(s[p])
    /\ SpaceEnd(s, p) <= Len(s)
    /\ IsAlpha(s[SpaceEnd(s, p)])

\* the number of digits \d{1,2} takes for the pattern to match at i (two
\* if it can, being greedy), 0 if the pattern does not match at i
DayDigitsAt(s, i) ==
    IF ~IsDigit(s[i]) THEN 0
    ELSE IF i < Len(s) /\ IsDigit(s[i + 1]) /\ RestMatches(s, i + 2) THEN 2
    ELSE IF RestMatches(s, i + 1) THEN 1
    ELSE 0

\* the groups of the match of (\d{1,2})\s+([A-Za-z]+) at i
DayMonthGroups(s, i, n) ==
    [found |-> TRUE,
     day |-> SubSeq(s, i, i + n - 1),
     month_abbr |-> SubSeq(s, SpaceEnd(s, i + n), AlphaEnd(s, SpaceEnd(s, i + n)) - 1)]

\* re.search(r'(\d{1,2})\s+([A-Za-z]+)', s): the leftmost match
re_search_day_month(s) ==
    LET starts == {i \in 1..Len(s) : DayDigitsAt(s, i) > 0}
    IN  IF starts = {} THEN [found |-> FALSE, day |-> <<>>, month_abbr |-> <<>>]
        ELSE LET i == CHOOSE i \in starts : \A j \in starts : i <= j
             IN  DayMonthGroups(s, i, DayDigitsAt(s, i))

\* months.get(month_abbr.lower()[:3]) as a number, 0 for None
month_num(month_abbr) ==
    LET key == Prefix(lower(month_abbr), 3)
    IN  IF \E k \in 1..12 : MonthAbbrs[k] = key
        THEN CHOOSE k \in 1..12 : MonthAbbrs[k] = key
        ELSE 0

\* the year inference that follows the match: [ok, text], ok FALSE when
\* datetime(year, month, day) raises ValueError.  The date of the
\* following year is formatted without being built.
infer_year(day, m, now) ==
    LET d == NumAt(day, 1, Len(day))
    IN  IF d < 1 \/ d > DaysInMonth(now.Y, m) THEN [ok |-> FALSE, text |-> <<>>]
        ELSE [ok |-> TRUE,
              text |-> zfill(IF before_now([Y |-> now.Y, m |-> m, d |-> d], now)
                             THEN now.Y + 1 ELSE now.Y, 1)
                       \o <<"-">> \o zfill(m, 2) \o <<"-">>
                       \o (IF Len(day) < 2 THEN <<"0">> \o day ELSE day)]

\* the text the format loop of calculate_days_remaining is given, match
\* being the result of the re.search
rewritten(closing_date_str, match, now) ==
    IF match.found /\ month_num(match.month_abbr) # 0
    THEN LET inferred == infer_year(match.day, month_num(match.month_abbr), now)
         IN  IF inferred.ok THEN inferred.text ELSE closing_date_str
    ELSE closing_date_str

\* the format loop and the return of calculate_days_remaining, parsed being
\* the dates of the first format that succeeds
days_of(parsed, now) ==
    IF parsed = {} THEN 0 ELSE Max0(days_until(CHOOSE x \in parsed : TRUE, now))

\* BaseScraper.calculate_days_remaining at the time now
calculate_days_remaining(closing_date_str, now) ==
    days_of(try_formats(rewritten(closing_date_str,
                                  re_search_day_month(closing_date_str), now), 1),
            now)

\* what parse_easytenders_date returns after the match
easytenders_date(clean_text, match, now) ==
    IF ~match.found \/ month_num(match.month_abbr) = 0 THEN clean_text
    ELSE LET inferred == infer_year(match.day, month_num(match.month_abbr), now)
         IN  IF inferred.ok THEN inferred.text ELSE clean_text

\* BaseScraper.parse_easytenders_date at the time now (no caller in the
\* module)
parse_easytenders_date(raw_date_text, now) ==
    IF raw_date_text = <<>> THEN None
    ELSE easytenders_date(strip(remove(raw_date_text, Closing)),
                          re_search_day_month(strip(remove(raw_date_text, Closing))),
                          now)

(***************************************************************************)
(* The source adapters.  A tender is the dict the adapter builds, with the *)
(* keys the pipeline's decisions read: source, tender_id, title, buyer,    *)
(* category, closing_date, value_zar and priority_buyer.  A tender_id is   *)
(* the tuple of the parts its f-string joins with "-".                     *)
(***************************************************************************)
\* the filter and the dict of the loop body, given the item's category and
\* whether its buyer is a priority buyer
ETendersKept(item, our_category, priority) ==
    IF our_category # "insurance" /\ ~priority
    THEN <<>>
    ELSE << [source |-> "eTenders.gov.za",
             tender_id |-> <<"ET", item.id>>,
             title |-> Prefix(item.description, 250),
             buyer |-> item.organ_of_State,
             category |-> our_category,
             closing_date |-> IF item.closing_Date # <<>>
                              THEN split_T_first(item.closing_Date) ELSE <<>>,
             value_zar |-> 0,
             priority_buyer |-> priority] >>

\* ETendersScraper.scrape, the body of the loop for one item of the JSON
\* answer: the list holds the tender appended, and is empty when the item
\* is skipped (neither insurance nor a priority buyer)
ETendersItem(item) ==
    ETendersKept(item, categorize_tender(item.description, item.category),
                 is_priority_buyer(item.organ_of_State))

\* the try block around the body: [exc, val].  An item whose organ_of_State
\* is JSON null makes the body raise (None has no lower()), at the filter
\* or, for an insurance item, when priority_buyer is computed.
ETendersTry(item) ==
    IF item.organ_of_State = None THEN [exc |-> TRUE, val |-> <<>>]
    ELSE [exc |-> FALSE, val |-> ETendersItem(item)]

\* the loop as it would be without the try/except around its body: the
\* exception ends the loop, the except of scrape() keeps what was appended
RECURSIVE ETendersLoop_unguarded(_)
ETendersLoop_unguarded(data) ==
    IF data = <<>> \/ ETendersTry(data[1]).exc THEN <<>>
    ELSE ETendersTry(data[1]).val \o ETendersLoop_unguarded(Tail(data))

\* the loop over the items: an item whose body raises is skipped
RECURSIVE ETendersLoop(_)
ETendersLoop(data) ==
    IF data = <<>> THEN <<>> ELSE ETendersTry(data[1]).val \o ETendersLoop(Tail(data))

\* ETendersScraper.scrape: fetch is the outcome of the GET ([ok, data]); a
\* failed request leaves the list empty
ETendersScraper_scrape(fetch) ==
    IF fetch.ok THEN ETendersLoop(fetch.data) ELSE <<>>

\* the card loop body without the test on unique_key: every card with a
\* title adds a tender
EasyTendersCard_all(unique, card, yr, seed) ==
    LET title == card.title
        buyer == card.buyer
        closing == strip(remove(card.closing, Closing))
        unique_key == lower(title \o <<"_">> \o buyer)
    IN  IF title = <<>> THEN unique
        ELSE Append(unique,
                [key |-> unique_key,
                 tender |->
                    [source |-> "EasyTenders",
                     tender_id |-> <<"EZ", yr, hash_mod(seed, title)>>,
                     title |-> title,
                     buyer |-> buyer,
                     category |-> categorize_tender(title, <<>>),
                     closing_date |-> closing,
                     value_zar |-> 0,
                     priority_buyer |-> is_priority_buyer(buyer)]])

\* EasyTendersScraper.scrape, one card: unique is the list of [key, tender]
\* pairs of the unique_tenders dict, in insertion order
EasyTendersCard(unique, card, yr, seed) ==
    LET title == card.title
        buyer == card.buyer
        closing == strip(remove(card.closing, Closing))
        unique_key == lower(title \o <<"_">> \o buyer)
    IN  IF title = <<>> THEN unique
        ELSE IF \E i \in DOMAIN unique : unique[i].key = unique_key THEN unique
        ELSE Append(unique,
                [key |-> unique_key,
                 tender |->
                    [source |-> "EasyTenders",
                     tender_id |-> <<"EZ", yr, hash_mod(seed, title)>>,
                     title |-> title,
                     buyer |-> buyer,
                     category |-> categorize_tender(title, <<>>),
                     closing_date |-> closing,
                     value_zar |-> 0,
                     priority_buyer |-> is_priority_buyer(buyer)]])

RECURSIVE EasyTendersCards(_, _, _, _)
EasyTendersCards(unique, cards, yr, seed) ==
    IF cards = <<>> THEN unique
    ELSE EasyTendersCards(EasyTendersCard(unique, cards[1], yr, seed),
                          Tail(cards), yr, seed)

\* the searches, one per keyword of every category, in order; pages[k] is
\* the outcome of the k-th request ([ok, cards]), a failed one is skipped
RECURSIVE EasyTendersSearches(_, _, _, _)
EasyTendersSearches(unique, pages, yr, seed) ==
    IF pages = <<>> THEN unique
    ELSE EasyTendersSearches(
            IF pages[1].ok
            THEN EasyTendersCards(unique, pages[1].cards, yr, seed)
            ELSE unique,
            Tail(pages), yr, seed)

\* EasyTendersScraper.scrape
EasyTendersScraper_scrape(pages, yr, seed) ==
    LET unique == EasyTendersSearches(<<>>, pages, yr, seed)
    IN  [i \in DOMAIN unique |-> unique[i].tender]

NoTenders == <<"n","o"," ","t","e","n","d","e","r","s">>

Transnet == <<"T","r","a","n","s","n","e","t"," ">>

\* TransnetScraper.scrape, the body of the loop for one table row
TransnetRow(row, yr) ==
    LET title == row.title
        buyer == Transnet \o row.division
    IN  IF title = <<>> \/ Contains(lower(title), NoTenders) THEN <<>>
        ELSE << [source |-> "Transnet",
                 tender_id |-> <<"TN", yr, row.number>>,
                 title |-> title,
                 buyer |-> buyer,
                 category |-> categorize_tender(title, <<>>),
                 closing_date |-> row.closing,
                 value_zar |-> 0,
                 priority_buyer |-> is_priority_buyer(buyer)] >>

RECURSIVE TransnetLoop(_, _)
TransnetLoop(rows, yr) ==
    IF rows = <<>> THEN <<>>
    ELSE TransnetRow(rows[1], yr) \o TransnetLoop(Tail(rows), yr)

\* TransnetScraper.scrape: fetch is the outcome of loading the page with the
\* browser ([ok, rows]), quit_raises says that driver.quit() in the finally
\* clause raises.  The result is [exc, val].
TransnetScraper_scrape(fetch, quit_raises, yr) ==
    IF quit_raises THEN [exc |-> TRUE, val |-> <<>>]
    ELSE [exc |-> FALSE,
          val |-> IF fetch.ok THEN TransnetLoop(fetch.rows, yr) ELSE <<>>]

(***************************************************************************)
(* GoogleSheetsManager.  The Raw_Data worksheet is the sequence of its     *)
(* data rows; its first row, written by _setup_worksheets, is the header.  *)
(***************************************************************************)
Headers == [Source |-> "Source", Tender_ID |-> "Tender_ID", Title |-> "Title",
            Buyer |-> "Buyer", Category |-> "Category",
            Closing_Date |-> "Closing_Date", Value_ZAR |-> "Value_ZAR",
            Status |-> "Status", Priority_Buyer |-> "Priority_Buyer",
            Alert_Sent |-> "Alert_Sent"]

\* ws.get_all_values()
get_all_values(ws) == <<Headers>> \o ws

\* get_existing_tender_ids answering from the worksheet whether or not the
\* read raises
get_existing_tender_ids_anyway(ws, api_fails) ==
    LET all_values == get_all_values(ws)
    IN  IF Len(all_values) <= 1 THEN {}
        ELSE {all_values[i].Tender_ID :
                 i \in {j \in 2..Len(all_values) : all_values[j].Tender_ID # <<>>}}

\* GoogleSheetsManager.get_existing_tender_ids: api_fails says that reading
\* the worksheet raises
get_existing_tender_ids(ws, api_fails) ==
    IF api_fails THEN {}
    ELSE LET all_values == get_all_values(ws)
         IN  IF Len(all_values) <= 1 THEN {}
             ELSE {all_values[i].Tender_ID :
                      i \in {j \in 2..Len(all_values) :
                                all_values[j].Tender_ID # <<>>}}

\* GoogleSheetsManager.validate_tender_data: are there errors
validate_tender_data(tender_data) ==
    tender_data.closing_date # <<>> /\ ~MatchesIsoPrefix(tender_data.closing_date)

\* the tender with its closing date fixed, parsed being [exc, val] of
\* _parse_date_flexible
fix_closing_date(tender, parsed) ==
    IF parsed.exc THEN [exc |-> TRUE, val |-> tender]
    ELSE IF parsed.val # None
         THEN [exc |-> FALSE, val |-> [tender EXCEPT !.closing_date = parsed.val]]
         ELSE [exc |-> FALSE, val |-> tender]

\* GoogleSheetsManager.auto_fix_tender; the result is [exc, val]
auto_fix_tender(tender) ==
    IF tender.closing_date # <<>> /\ ~MatchesIsoPrefix(tender.closing_date)
    THEN fix_closing_date(tender, _parse_date_flexible(tender.closing_date))
    ELSE [exc |-> FALSE, val |-> tender]

\* the days_remaining of the tender after auto_fix_tender at the time now,
\* parsed being [exc, val] of _parse_date_flexible and days the value
\* before
fixed_days_remaining(days, parsed, now) ==
    IF parsed.exc THEN [exc |-> TRUE, val |-> days]
    ELSE IF parsed.val # None
         THEN [exc |-> FALSE,
               val |-> IF strptime(parsed.val, "%Y-%m-%d") = {} THEN days
                       ELSE days_of(strptime(parsed.val, "%Y-%m-%d"), now)]
         ELSE [exc |-> FALSE, val |-> days]

\* auto_fix_tender on a tender whose days_remaining is days: [exc, val],
\* val the days_remaining afterwards
auto_fix_days_remaining(days, closing, now) ==
    IF closing # <<>> /\ ~MatchesIsoPrefix(closing)
    THEN fixed_days_remaining(days, _parse_date_flexible(closing), now)
    ELSE [exc |-> FALSE, val |-> days]

\* the row with its last column set as if the alert had gone out
SheetRow_alerted(tender_data) ==
    [Source |-> tender_data.source,
     Tender_ID |-> tender_data.tender_id,
     Title |-> tender_data.title,
     Buyer |-> tender_data.buyer,
     Category |-> tender_data.category,
     Closing_Date |-> tender_data.closing_date,
     Value_ZAR |-> tender_data.value_zar,
     Status |-> "New",
     Priority_Buyer |-> IF tender_data.priority_buyer THEN "Yes" ELSE "No",
     Alert_Sent |-> "Yes"]

\* the row add_tenders builds for one tender
SheetRow(tender_data) ==
    [Source |-> tender_data.source,
     Tender_ID |-> tender_data.tender_id,
     Title |-> tender_data.title,
     Buyer |-> tender_data.buyer,
     Category |-> tender_data.category,
     Closing_Date |-> tender_data.closing_date,
     Value_ZAR |-> tender_data.value_zar,
     Status |-> "New",
     Priority_Buyer |-> IF tender_data.priority_buyer THEN "Yes" ELSE "No",
     Alert_Sent |-> "No"]

\* the loop of add_tenders over the batch: [exc, tenders, rows], where
\* tenders is the batch as the loop leaves it (auto_fix_tender changes the
\* dicts in place) and exc says that a tender's fix raised
RECURSIVE add_tenders_loop(_)
RECURSIVE add_tenders_turn(_, _)
add_tenders_loop(tenders_data) ==
    IF tenders_data = <<>> THEN [exc |-> FALSE, tenders |-> <<>>, rows |-> <<>>]
    ELSE add_tenders_turn(
            tenders_data,
            IF validate_tender_data(tenders_data[1])
            THEN auto_fix_tender(tenders_data[1])
            ELSE [exc |-> FALSE, val |-> tenders_data[1]])

\* one turn, fixed being [exc, val] of the first tender's validation and fix
add_tenders_turn(tenders_data, fixed) ==
    IF fixed.exc
    THEN [exc |-> TRUE, tenders |-> tenders_data, rows |-> <<>>]
    ELSE LET rest == add_tenders_loop(Tail(tenders_data))
         IN  [exc |-> rest.exc,
              tenders |-> <<fixed.val>> \o rest.tenders,
              rows |-> <<SheetRow(fixed.val)>> \o rest.rows]

\* the end of the try block writing the batch over the worksheet instead
\* of appending it
add_tenders_append_replaces(ws, loop, fault) ==
    IF loop.exc \/ fault = "append_rows"
    THEN [exc |-> FALSE, ret |-> FALSE, ws |-> ws, tenders |-> loop.tenders]
    ELSE [exc |-> FALSE, ret |-> TRUE, ws |-> loop.rows,
          tenders |-> loop.tenders]

\* the end of the try block, loop being what the loop over the batch left
add_tenders_append(ws, loop, fault) ==
    IF loop.exc \/ fault = "append_rows"
    THEN [exc |-> FALSE, ret |-> FALSE, ws |-> ws, tenders |-> loop.tenders]
    ELSE [exc |-> FALSE, ret |-> TRUE, ws |-> ws \o loop.rows,
          tenders |-> loop.tenders]

\* GoogleSheetsManager.add_tenders on worksheet ws.  fault is what the
\* Sheets API does: "none", "worksheet" (opening the worksheet raises) or
\* "append_rows" (the batch append raises).  The result is [exc, ret, ws,
\* tenders]: the value returned, the worksheet and the batch afterwards.
add_tenders(ws, tenders_data, fault) ==
    IF tenders_data = <<>>
    THEN [exc |-> FALSE, ret |-> TRUE, ws |-> ws, tenders |-> tenders_data]
    ELSE IF fault = "worksheet"
    THEN [exc |-> FALSE, ret |-> FALSE, ws |-> ws, tenders |-> tenders_data]
    ELSE add_tenders_append(ws, add_tenders_loop(tenders_data), fault)

\* the rows update_dashboard appends for stats
StatRows(stats) ==
    [i \in 1..Len(CATEGORIES) |->
        [cat |-> CATEGORIES[i].name,
         count |-> stats[CATEGORIES[i].name].count,
         total_value |-> stats[CATEGORIES[i].name].total_value]]

\* update_dashboard as it would be without its try/except
update_dashboard_unguarded(dash, stats, fault) ==
    CASE fault = "worksheet" -> [exc |-> TRUE, ws |-> dash]
      [] fault = "append_row" -> [exc |-> TRUE, ws |-> <<>>]
      [] OTHER -> [exc |-> FALSE, ws |-> StatRows(stats)]

\* GoogleSheetsManager.update_dashboard on the Dashboard worksheet dash
\* (its category rows).  fault: "none", "worksheet" (raises before
\* anything is written) or "append_row" (raises after ws.clear()).  The
\* result is [exc, ws].
update_dashboard(dash, stats, fault) ==
    CASE fault = "worksheet" -> [exc |-> FALSE, ws |-> dash]
      [] fault = "append_row" -> [exc |-> FALSE, ws |-> <<>>]
      [] OTHER -> [exc |-> FALSE, ws |-> StatRows(stats)]

\* send_alert without its try/except: the SMTP error leaves the call
send_alert_unguarded(tender, outcome) ==
    IF outcome = "no_credentials" THEN [exc |-> FALSE, ret |-> FALSE]
    ELSE IF outcome = "smtp_error" THEN [exc |-> TRUE, ret |-> FALSE]
    ELSE [exc |-> FALSE, ret |-> TRUE]

\* EmailAlerter.send_alert.  outcome: "sent", "no_credentials" (username
\* or password not set) or "smtp_error" (building or sending the message
\* raises).  The result is [exc, ret].
send_alert(tender, outcome) ==
    IF outcome = "no_credentials" THEN [exc |-> FALSE, ret |-> FALSE]
    ELSE IF outcome = "smtp_error" THEN [exc |-> FALSE, ret |-> FALSE]
    ELSE [exc |-> FALSE, ret |-> TRUE]

(***************************************************************************)
(* What the portals publish.  The listings are drawn from a small          *)
(* universe per portal; those with the same native identity (the eTenders  *)
(* id, the Transnet tender number, the EasyTenders title) are one listing  *)
(* before and after an edit of its other fields.                           *)
(***************************************************************************)
s_bond == <<"b","o","n","d">>
s_BOND == <<"B","O","N","D">>
s_road == <<"r","o","a","d">>
s_ARC == <<"A","R","C">>
s_Xco == <<"X","c","o">>
s_TFR == <<"T","F","R">>
s_iso_T == <<"2","0","2","6","-","0","3","-","1","8","T","1","1">>
s_closing_18_Mar == <<"C","l","o","s","i","n","g",":"," ","1","8"," ","M","a","r">>
s_18_03_2026 == <<"1","8","/","0","3","/","2","0","2","6">>

ETItems ==
    { [id |-> 1, description |-> s_bond, category |-> <<>>,
       organ_of_State |-> s_Xco, closing_Date |-> s_iso_T],
      [id |-> 1, description |-> s_BOND, category |-> <<>>,
       organ_of_State |-> s_ARC, closing_Date |-> s_iso_T],
      [id |-> 2, description |-> s_road, category |-> <<>>,
       organ_of_State |-> s_ARC, closing_Date |-> <<>>],
      [id |-> 3, description |-> s_road, category |-> <<>>,
       organ_of_State |-> s_Xco, closing_Date |-> <<>>] }

EZCards ==
    { [title |-> s_bond, buyer |-> s_Xco, closing |-> s_closing_18_Mar],
      [title |-> s_bond, buyer |-> s_ARC, closing |-> <<>>] }

TNRows ==
    { [number |-> <<"7">>, title |-> s_bond, division |-> s_TFR,
       closing |-> s_18_03_2026],
      [number |-> <<"7">>, title |-> s_road, division |-> s_TFR,
       closing |-> <<>>] }

\* the keywords EasyTenders is searched for, in order: one request each
RECURSIVE AllKeywords(_)
AllKeywords(cats) ==
    IF cats = <<>> THEN <<>> ELSE cats[1].keywords \o AllKeywords(Tail(cats))

NSearches == Len(AllKeywords(CATEGORIES))

SeqsUpTo(S, n) == UNION {[1..k -> S] : k \in 0..n}

RECURSIVE SumLen(_)
SumLen(pages) == IF pages = <<>> THEN 0 ELSE Len(pages[1]) + SumLen(Tail(pages))

Listings(u) == Len(u.et) + SumLen(u.ez) + Len(u.tn)

Upstreams ==
    {u \in [et : SeqsUpTo(ETItems, MaxListings),
            ez : [1..NSearches -> SeqsUpTo(EZCards, MaxListings)],
            tn : SeqsUpTo(TNRows, MaxListings)] : Listings(u) <= MaxListings}

Years == {2026, 2027}

Seeds == {0, 1}

\* the scrapers dict of TenderTracker.__init__, in insertion order
Scrapers == <<"etenders", "easytenders", "transnet">>

(***************************************************************************)
(* State.                                                                  *)
(***************************************************************************)
VARIABLES
    Raw_Data,         \* the data rows of the Raw_Data worksheet
    Dashboard,        \* the category rows of the Dashboard worksheet
    upstream,         \* what the three portals publish
    year,             \* datetime.now().year
    seed,             \* the str-hash seed of the running interpreter
    pc,               \* where run() is
    runs,             \* invocations of run() so far
    existing_ids,     \* run(): existing_ids
    scraper_idx,      \* run(): the scraper the loop is at
    all_new_tenders,  \* run(): all_new_tenders
    filtered_tenders, \* run(): filtered_tenders
    stats,            \* run(): stats
    add_ret,          \* run(): what add_tenders returned ("none" before)
    alerts,           \* the send_alert calls of this run: [tender, ret]
    log,              \* the figures of the run's two closing log lines
    scraped,          \* history: per scraper, what its scrape() did
    read_failed,      \* history: reading the existing ids raised
    rows_at_start,    \* history: Len(Raw_Data) when the run started
    prev,             \* history: summary of the run before
    call,             \* a function of the module called on its own: the
                      \* function, its arguments and the clock
    result            \* what that call returned

vars == <<Raw_Data, Dashboard, upstream, year, seed, pc, runs, existing_ids,
          scraper_idx, all_new_tenders, filtered_tenders, stats, add_ret,
          alerts, log, scraped, read_failed, rows_at_start, prev, call, result>>

store == <<Raw_Data, Dashboard>>
world == <<upstream, year, seed>>
locals == <<existing_ids, scraper_idx, all_new_tenders, filtered_tenders,
            stats, add_ret, alerts, log>>
history == <<scraped, read_failed, rows_at_start, prev>>
calls == <<call, result>>

NoScrape == [n \in Range(Scrapers) |-> [state |-> "pending", val |-> <<>>]]
NoLog == [processed |-> -1, discarded |-> -1, added |-> -1]
NoPrev == [state |-> "none", cands |-> <<>>]
NoCall == [fn |-> "none"]
NoRet == [state |-> "pending", val |-> <<>>]

\* Raw_Data when the behaviour starts: as _setup_worksheets leaves it, or
\* as an earlier run left it that found the first eTenders listing
KnownStores ==
    { <<>>,
      <<SheetRow([source |-> "eTenders.gov.za", tender_id |-> <<"ET", 1>>,
                  title |-> s_bond, buyer |-> s_Xco, category |-> "insurance",
                  closing_date |-> SubSeq(s_iso_T, 1, 10), value_zar |-> 0,
                  priority_buyer |-> FALSE])>> }

TrackerInit ==
    /\ Raw_Data \in KnownStores
    /\ Dashboard = <<>>
    /\ upstream \in Upstreams
    /\ year = 2026
    /\ seed = 0
    /\ pc = "idle"
    /\ runs = 0
    /\ existing_ids = {}
    /\ scraper_idx = 1
    /\ all_new_tenders = <<>>
    /\ filtered_tenders = <<>>
    /\ stats = [insurance |-> [count |-> 0, total_value |-> 0]]
    /\ add_ret = "none"
    /\ alerts = <<>>
    /\ log = NoLog
    /\ scraped = NoScrape
    /\ read_failed = FALSE
    /\ rows_at_start = Len(Raw_Data)
    /\ prev = NoPrev

\* the tracker as constructed; no function is called on its own
Init == TrackerInit /\ call = NoCall /\ result = NoRet

(***************************************************************************)
(* The environment between two invocations.                                *)
(***************************************************************************)
Between == pc = "idle" /\ runs \in 1..(MaxRuns - 1)

\* the next invocation runs in a fresh interpreter (the script is started
\* once per scheduled run): a new str-hash seed
NewProcess ==
    /\ Between
    /\ \E s \in Seeds \ {seed} : seed' = s
    /\ UNCHANGED <<calls, store, upstream, year, pc, runs, locals, history>>

\* the calendar year changes
NewYear ==
    /\ Between
    /\ year + 1 \in Years
    /\ year' = year + 1
    /\ UNCHANGED <<calls, store, upstream, seed, pc, runs, locals, history>>

(***************************************************************************)
(* TenderTracker.run(), one action per step.  An exception that leaves a   *)
(* call made outside a try block leaves run(): pc becomes "crashed".       *)
(***************************************************************************)
\* what identifies a candidate to its portal, whatever id the run gave it
Candidate(t) == [source |-> t.source, title |-> t.title, buyer |-> t.buyer]

Candidates(ts) == [i \in DOMAIN ts |-> Candidate(ts[i])]

\* tracker.run() is called: the locals of run() are those of its first line
StartRun ==
    /\ pc = "idle"
    /\ runs < MaxRuns
    /\ pc' = "load"
    /\ runs' = runs + 1
    /\ UNCHANGED <<calls, store, world, locals, history>>

\* existing_ids = self.sheets.get_existing_tender_ids()
GetExistingIds ==
    /\ pc = "load"
    /\ \E api_fails \in BOOLEAN :
        /\ existing_ids' = get_existing_tender_ids(Raw_Data, api_fails)
        /\ read_failed' = api_fails
    /\ pc' = "scrape"
    /\ UNCHANGED <<calls, store, world, runs, scraper_idx, all_new_tenders,
                   filtered_tenders, stats, add_ret, alerts, log, scraped,
                   rows_at_start, prev>>

\* the tenders of one scraper's result that the loop appends
new_tenders(tenders, existing) ==
    SelectSeq(tenders, LAMBDA t : t.tender_id \notin existing)

\* one turn of the loop as it would be without the try/except around it
run_scraper_unguarded(all_new, idx, existing, res) ==
    [crashed |-> res.exc,
     all_new |-> IF res.exc THEN all_new
                 ELSE all_new \o new_tenders(res.val, existing),
     existing |-> existing,
     idx |-> idx + 1]

\* the turn as it would be if the loop took the tenders of the first
\* scraper that has new ones and ignored those of the scrapers after it
run_scraper_first_only(all_new, idx, existing, res) ==
    [crashed |-> FALSE,
     all_new |-> IF res.exc \/ all_new # <<>> THEN all_new
                 ELSE new_tenders(res.val, existing),
     existing |-> existing,
     idx |-> idx + 1]

\* the turn as it would be if the loop added the ids it has seen to
\* existing_ids
run_scraper_remembers(all_new, idx, existing, res) ==
    [crashed |-> FALSE,
     all_new |-> IF res.exc THEN all_new
                 ELSE all_new \o new_tenders(res.val, existing),
     existing |-> IF res.exc THEN existing
                  ELSE existing \cup {res.val[i].tender_id : i \in DOMAIN res.val},
     idx |-> idx + 1]

\* one turn of the loop over the scrapers, res being [exc, val] of scrape():
\* the try/except around it catches the exception and goes on; existing is
\* existing_ids, which the loop only reads
run_scraper(all_new, idx, existing, res) ==
    [crashed |-> FALSE,
     all_new |-> IF res.exc THEN all_new
                 ELSE all_new \o new_tenders(res.val, existing),
     existing |-> existing,
     idx |-> idx + 1]

\* scrape() of the named scraper, the portal answering or not
ScrapeResults(name) ==
    CASE name = "etenders" ->
            {[exc |-> FALSE,
              val |-> ETendersScraper_scrape([ok |-> ok, data |-> upstream.et])] :
                ok \in BOOLEAN}
      [] name = "easytenders" ->
            {[exc |-> FALSE,
              val |-> EasyTendersScraper_scrape(
                         [k \in 1..NSearches |->
                             [ok |-> k \notin down, cards |-> upstream.ez[k]]],
                         year, seed)] :
                down \in SUBSET (1..NSearches)}
      [] name = "transnet" ->
            {TransnetScraper_scrape([ok |-> f[1], rows |-> upstream.tn], f[2], year) :
                f \in BOOLEAN \X BOOLEAN}

\* scrape() of the named scraper when every request it makes is answered
AnsweredResult(name) ==
    CASE name = "etenders" ->
            [exc |-> FALSE,
             val |-> ETendersScraper_scrape([ok |-> TRUE, data |-> upstream.et])]
      [] name = "easytenders" ->
            [exc |-> FALSE,
             val |-> EasyTendersScraper_scrape(
                        [k \in 1..NSearches |-> [ok |-> TRUE, cards |-> upstream.ez[k]]],
                        year, seed)]
      [] name = "transnet" ->
            TransnetScraper_scrape([ok |-> TRUE, rows |-> upstream.tn], FALSE, year)

\* every scraper returned what its portal publishes
AllAnswered ==
    \A n \in Range(Scrapers) :
        /\ scraped[n].state = "returned"
        /\ scraped[n].val = AnsweredResult(n).val

\* and the run read the stored ids
Undisturbed == AllAnswered /\ ~read_failed

\* what the next run is compared with
RunSummary ==
    IF pc = "crashed" \/ ~AllAnswered THEN [state |-> "disturbed", cands |-> <<>>]
    ELSE IF add_ret = "False"
    THEN [state |-> "not added", cands |-> Candidates(all_new_tenders)]
    ELSE IF read_failed THEN [state |-> "disturbed", cands |-> <<>>]
    ELSE [state |-> "added", cands |-> <<>>]

ScraperDone(res, next) ==
    /\ all_new_tenders' = next.all_new
    /\ existing_ids' = next.existing
    /\ scraper_idx' = next.idx
    /\ scraped' = [scraped EXCEPT ![Scrapers[scraper_idx]] =
                      [state |-> IF res.exc THEN "raised" ELSE "returned",
                       val |-> res.val]]
    /\ pc' = IF next.crashed THEN "crashed"
             ELSE IF next.idx > Len(Scrapers) THEN "filter" ELSE "scrape"

RunScraper ==
    /\ pc = "scrape"
    /\ scraper_idx <= Len(Scrapers)
    /\ \E res \in ScrapeResults(Scrapers[scraper_idx]) :
        ScraperDone(res, run_scraper(all_new_tenders, scraper_idx, existing_ids, res))
    /\ UNCHANGED <<calls, store, world, runs, filtered_tenders, stats,
                   add_ret, alerts, log, read_failed, rows_at_start, prev>>

\* the filter as it would be if priority buyers were kept too
keep_tender_broad(tender) ==
    tender.category = "insurance" \/ tender.priority_buyer

\* the filter of run(): keep only insurance tenders
keep_tender(tender) == tender.category = "insurance"

FilterTenders ==
    /\ pc = "filter"
    /\ filtered_tenders' = SelectSeq(all_new_tenders, keep_tender)
    /\ pc' = "persist"
    /\ UNCHANGED <<calls, store, world, runs, existing_ids, scraper_idx,
                   all_new_tenders, stats, add_ret, alerts, log, history>>

\* run() as it would be if it alerted whatever add_tenders returned
after_add_always(ret) == "alert"

\* where run() goes after add_tenders returned ret: the alert loop only if
\* the batch was added
after_add(ret) == IF ret THEN "alert" ELSE "report"

AddTendersDone(res) ==
    /\ Raw_Data' = res.ws
    /\ filtered_tenders' = res.tenders
    /\ add_ret' = IF res.exc THEN "none" ELSE IF res.ret THEN "True" ELSE "False"
    /\ pc' = IF res.exc THEN "crashed" ELSE after_add(res.ret)

\* if filtered_tenders: if self.sheets.add_tenders(filtered_tenders): ...
AddTenders ==
    /\ pc = "persist"
    /\ IF filtered_tenders = <<>>
       THEN /\ pc' = "report"
            /\ UNCHANGED <<Raw_Data, filtered_tenders, add_ret>>
       ELSE \/ AddTendersDone(add_tenders(Raw_Data, filtered_tenders, "worksheet"))
            \/ \E fault \in {"none", "append_rows"} :
                  AddTendersDone(add_tenders(Raw_Data, filtered_tenders, fault))
    /\ UNCHANGED <<calls, Dashboard, world, runs, existing_ids, scraper_idx,
                   all_new_tenders, stats, alerts, log, history>>

\* the alert loop left after its first turn
after_alert_first_only(i, n) == "report"

\* where run() goes after turn i of the loop over the n added tenders
after_alert(i, n) == IF i = n THEN "report" ELSE "alert"

\* one turn of the loop over the added tenders: the stats, then the alert
SendAlert ==
    /\ pc = "alert"
    /\ LET i == Len(alerts) + 1
           tender == filtered_tenders[i]
           cat == tender.category
       IN  IF cat \notin DOMAIN stats
           THEN /\ pc' = "crashed"
                /\ UNCHANGED <<stats, alerts>>
           ELSE \E outcome \in {"sent", "no_credentials", "smtp_error"} :
                  LET res == send_alert(tender, outcome)
                  IN  /\ stats' = [stats EXCEPT
                                      ![cat].count = @ + 1,
                                      ![cat].total_value = @ + tender.value_zar]
                      /\ alerts' = Append(alerts, [tender |-> tender, ret |-> res.ret])
                      /\ pc' = IF res.exc THEN "crashed"
                               ELSE after_alert(i, Len(filtered_tenders))
    /\ UNCHANGED <<calls, store, world, runs, existing_ids, scraper_idx,
                   all_new_tenders, filtered_tenders, add_ret, log, history>>

\* the "Processed ... and discarded ..." line, then update_dashboard(stats)
Report ==
    /\ pc = "report"
    /\ \E fault \in {"none", "worksheet", "append_row"} :
        LET res == update_dashboard(Dashboard, stats, fault)
        IN  /\ Dashboard' = res.ws
            /\ pc' = IF res.exc THEN "crashed" ELSE "complete"
    /\ log' = [log EXCEPT
                  !.processed = Len(filtered_tenders),
                  !.discarded = Len(all_new_tenders) - Len(filtered_tenders)]
    /\ UNCHANGED <<calls, Raw_Data, world, runs, existing_ids, scraper_idx,
                   all_new_tenders, filtered_tenders, stats, add_ret, alerts,
                   history>>

\* the closing log lines ("New tenders added: ..."); run() returns
Complete ==
    /\ pc = "complete"
    /\ log' = [log EXCEPT !.added = Len(filtered_tenders)]
    /\ pc' = "done"
    /\ UNCHANGED <<calls, store, world, runs, existing_ids, scraper_idx,
                   all_new_tenders, filtered_tenders, stats, add_ret, alerts,
                   history>>

\* run() is over (it returned, or an exception left it) and the script
\* ends: its locals are gone.  prev keeps what the next run is compared
\* with: whether every portal answered, whether the run added its batch
\* and, when it did not, the candidates it took for new.
ProcessExit ==
    /\ pc \in {"done", "crashed"}
    /\ pc' = "idle"
    /\ prev' = RunSummary
    /\ existing_ids' = {}
    /\ scraper_idx' = 1
    /\ all_new_tenders' = <<>>
    /\ filtered_tenders' = <<>>
    /\ stats' = [insurance |-> [count |-> 0, total_value |-> 0]]
    /\ add_ret' = "none"
    /\ alerts' = <<>>
    /\ log' = NoLog
    /\ scraped' = NoScrape
    /\ read_failed' = FALSE
    /\ rows_at_start' = Len(Raw_Data)
    /\ UNCHANGED <<calls, store, world, runs>>

RunStep ==
    \/ GetExistingIds
    \/ RunScraper
    \/ FilterTenders
    \/ AddTenders
    \/ SendAlert
    \/ Report
    \/ Complete
    \/ ProcessExit

Next ==
    \/ NewProcess
    \/ NewYear
    \/ StartRun
    \/ RunStep

Spec == Init /\ [][Next]_vars

\* run() is sequential code whose every call returns (the requests carry
\* timeouts): a run that has started keeps taking steps.  The behaviours
\* checked for this start from the snapshots of at most LiveListings
\* listings.
FairInit == Init /\ Listings(upstream) <= LiveListings

FairSpec == FairInit /\ [][Next]_vars /\ WF_vars(RunStep)

(***************************************************************************)
(* The functions of the module called on their own, as a test or another   *)
(* script would: one call per behaviour, on arguments drawn from small     *)
(* sets, at a clock reading now = [Y, m, d, hour].                         *)
(***************************************************************************)
s_18_Mar == <<"1","8"," ","M","a","r">>
s_18_March_2027 == <<"1","8"," ","M","a","r","c","h"," ","2","0","2","7">>
s_2026_03_18 == <<"2","0","2","6","-","0","3","-","1","8">>
s_2025_12_31 == <<"2","0","2","5","-","1","2","-","3","1">>
s_29_Feb == <<"2","9"," ","F","e","b">>
s_31_Apr == <<"3","1"," ","A","p","r">>
s_soon == <<"s","o","o","n">>

\* closing-date texts: empty, null, day and month, full dates of the past
\* and of the future, no such day, no date at all
ClosingTexts ==
    {<<>>, None, s_18_Mar, s_closing_18_Mar, s_18_March_2027, s_2026_03_18,
     s_18_03_2026, s_2025_12_31, s_29_Feb, s_31_Apr, s_soon}

\* clock readings: at midnight and in office hours
Nows ==
    {[Y |-> 2026, m |-> 1, d |-> 10, hour |-> h] : h \in {0, 9}} \cup
    {[Y |-> 2026, m |-> 3, d |-> 18, hour |-> h] : h \in {0, 9}} \cup
    {[Y |-> 2026, m |-> 4, d |-> 1, hour |-> h] : h \in {0, 9}} \cup
    {[Y |-> 2028, m |-> 3, d |-> 1, hour |-> h] : h \in {0, 9}}

DaysRemainingCalls ==
    [fn : {"calculate_days_remaining"}, closing_date_str : ClosingTexts, now : Nows]

AutoFixCalls ==
    [fn : {"auto_fix_tender"}, days_remaining : {0, 3},
     closing_date : ClosingTexts \ {None}, now : Nows]

\* str.capitalize() of a lower-case word
Capitalize(s) ==
    <<UpperCase[CHOOSE i \in DOMAIN LowerCase : LowerCase[i] = s[1]]>> \o Tail(s)

\* the full-date layouts a closing date comes in
SupportedFormats == <<"%Y-%m-%d", "%d/%m/%Y", "%d-%m-%Y", "%d %B %Y", "%d %b %Y">>

\* date.strftime(fmt): zero-filled day and month, English month names
format_date(date, fmt) ==
    CASE fmt = "%Y-%m-%d" -> strftime(date)
      [] fmt = "%d/%m/%Y" ->
            zfill(date.d, 2) \o <<"/">> \o zfill(date.m, 2) \o <<"/">> \o zfill(date.Y, 4)
      [] fmt = "%d-%m-%Y" ->
            zfill(date.d, 2) \o <<"-">> \o zfill(date.m, 2) \o <<"-">> \o zfill(date.Y, 4)
      [] fmt = "%d %B %Y" ->
            zfill(date.d, 2) \o <<" ">> \o Capitalize(MonthNames[date.m])
                \o <<" ">> \o zfill(date.Y, 4)
      [] fmt = "%d %b %Y" ->
            zfill(date.d, 2) \o <<" ">> \o Capitalize(MonthAbbrs[date.m])
                \o <<" ">> \o zfill(date.Y, 4)

\* calendar dates of a leap year and of a common year: the first days,
\* one-digit and two-digit, and the last days of every month
CalendarDates ==
    {date \in [Y : {2024, 2026}, m : 1..12, d : {1, 9, 10, 28, 29, 30, 31}] :
        date.d <= DaysInMonth(date.Y, date.m)}

FormattedDates ==
    {format_date(date, SupportedFormats[i]) :
        date \in CalendarDates, i \in DOMAIN SupportedFormats}

ParseDateCalls ==
    [fn : {"_parse_date_flexible"}, date_str : ClosingTexts \ {None}, now : Nows]
    \cup
    [fn : {"_parse_date_flexible"}, date_str : FormattedDates,
     now : {[Y |-> 2026, m |-> 1, d |-> 10, hour |-> 9]}]

EasytendersDateCalls ==
    [fn : {"parse_easytenders_date"}, raw_date_text : ClosingTexts \ {None},
     now : Nows]

s_D_and_O == <<"D","&","O">>
s_d_and_o == <<"d","&","o">>

\* titles and descriptions with a keyword in several letter cases, without
\* one, and with none at all
CategorizeCalls ==
    [fn : {"categorize_tender"},
     title : {<<>>, s_bond, s_BOND, s_road, s_D_and_O, s_d_and_o},
     description : {<<>>, s_bond, s_D_and_O, s_road}]

\* an insurance tender as TransnetScraper builds it, with the k-th tender
\* number and the closing date as the portal writes it
BatchTender(k, closing) ==
    [source |-> "Transnet", tender_id |-> <<"TN", 2026, <<Digits[k + 1]>>>>,
     title |-> s_bond, buyer |-> Transnet \o s_TFR, category |-> "insurance",
     closing_date |-> closing, value_zar |-> 0, priority_buyer |-> FALSE]

\* batches of one or two tenders: closing dates in the canonical form, in
\* another supported format, with day and month only, unparseable, empty
Batches ==
    LET texts == {s_2026_03_18, s_18_03_2026, s_18_Mar, s_soon, <<>>}
    IN  {<<BatchTender(1, a)>> : a \in texts} \cup
        {<<BatchTender(1, a), BatchTender(2, b)>> : a \in texts, b \in texts}

AddTendersCalls == [fn : {"add_tenders"}, tenders_data : Batches]

\* eTenders items: an insurance one, one of a priority buyer, one without
\* a description whose website category holds a keyword, one whose
\* organ_of_State is null
ETCallItems ==
    { [id |-> 1, description |-> s_bond, category |-> <<>>,
       organ_of_State |-> s_Xco, closing_Date |-> s_iso_T],
      [id |-> 2, description |-> s_road, category |-> <<>>,
       organ_of_State |-> s_ARC, closing_Date |-> <<>>],
      [id |-> 4, description |-> <<>>, category |-> s_bond,
       organ_of_State |-> s_Xco, closing_Date |-> <<>>],
      [id |-> 5, description |-> s_bond, category |-> <<>>,
       organ_of_State |-> None, closing_Date |-> s_iso_T] }

\* EasyTenders cards, one without a title, one with the title and buyer of
\* another in other letter case
EZCallCards ==
    EZCards \cup {[title |-> <<>>, buyer |-> s_Xco, closing |-> <<>>],
                  [title |-> s_BOND, buyer |-> s_Xco, closing |-> <<>>]}

\* Transnet rows, one with another tender number, one without a title
TNCallRows ==
    TNRows \cup
    { [number |-> <<"8">>, title |-> s_bond, division |-> s_TFR, closing |-> <<>>],
      [number |-> <<"9">>, title |-> <<>>, division |-> s_TFR, closing |-> <<>>] }

\* scrape() of each adapter on what its request fetched, in a process with
\* the given str-hash seed, in the given year
ScrapeCalls ==
    [fn : {"ETendersScraper.scrape"}, data : SeqsUpTo(ETCallItems, 3)]
    \cup
    [fn : {"EasyTendersScraper.scrape"}, cards : SeqsUpTo(EZCallCards, 2),
     more : SeqsUpTo(EZCallCards, 1), year : Years, seed : Seeds]
    \cup
    [fn : {"TransnetScraper.scrape"}, rows : SeqsUpTo(TNCallRows, 2), year : Years]

Calls ==
    DaysRemainingCalls \cup AutoFixCalls \cup ParseDateCalls
        \cup EasytendersDateCalls \cup CategorizeCalls \cup AddTendersCalls
        \cup ScrapeCalls

Returned(val) == [state |-> "returned", val |-> val]

Call(fn) == call.fn = fn /\ result.state = "pending"

CalculateDaysRemaining ==
    /\ Call("calculate_days_remaining")
    /\ result' = Returned(calculate_days_remaining(call.closing_date_str, call.now))
    /\ UNCHANGED <<call, store, world, pc, runs, locals, history>>

AutoFixTender ==
    /\ Call("auto_fix_tender")
    /\ result' = Returned(auto_fix_days_remaining(call.days_remaining,
                                               call.closing_date, call.now))
    /\ UNCHANGED <<call, store, world, pc, runs, locals, history>>

ParseDateFlexible ==
    /\ Call("_parse_date_flexible")
    /\ result' = Returned(_parse_date_flexible(call.date_str))
    /\ UNCHANGED <<call, store, world, pc, runs, locals, history>>

ParseEasytendersDate ==
    /\ Call("parse_easytenders_date")
    /\ result' = Returned(parse_easytenders_date(call.raw_date_text, call.now))
    /\ UNCHANGED <<call, store, world, pc, runs, locals, history>>

CategorizeTender ==
    /\ Call("categorize_tender")
    /\ result' = Returned(categorize_tender(call.title, call.description))
    /\ UNCHANGED <<call, store, world, pc, runs, locals, history>>

AddTendersReturned(res, fault) ==
    /\ Raw_Data' = res.ws
    /\ result' = Returned([exc |-> res.exc, ret |-> res.ret, fault |-> fault])

\* add_tenders on the Raw_Data worksheet; the Sheets API works or fails
AddTendersCall ==
    /\ Call("add_tenders")
    /\ \E fault \in {"none", "worksheet", "append_rows"} :
          AddTendersReturned(add_tenders(Raw_Data, call.tenders_data, fault), fault)
    /\ UNCHANGED <<call, Dashboard, world, pc, runs, locals, history>>

\* the answers to the searches of EasyTenders: cards to the first, more to
\* each of the others
Pages(cards, more) ==
    [k \in 1..NSearches |-> [ok |-> TRUE, cards |-> IF k = 1 THEN cards ELSE more]]

ETendersScrape ==
    /\ Call("ETendersScraper.scrape")
    /\ result' = Returned(ETendersScraper_scrape([ok |-> TRUE, data |-> call.data]))
    /\ UNCHANGED <<call, store, world, pc, runs, locals, history>>

EasyTendersScrape ==
    /\ Call("EasyTendersScraper.scrape")
    /\ result' = Returned(EasyTendersScraper_scrape(Pages(call.cards, call.more),
                                                    call.year, call.seed))
    /\ UNCHANGED <<call, store, world, pc, runs, locals, history>>

TransnetScrape ==
    /\ Call("TransnetScraper.scrape")
    /\ result' = Returned(TransnetScraper_scrape([ok |-> TRUE, rows |-> call.rows],
                                                 FALSE, call.year).val)
    /\ UNCHANGED <<call, store, world, pc, runs, locals, history>>

CallNext ==
    \/ CalculateDaysRemaining
    \/ AutoFixTender
    \/ ParseDateFlexible
    \/ ParseEasytendersDate
    \/ CategorizeTender
    \/ AddTendersCall
    \/ ETendersScrape
    \/ EasyTendersScrape
    \/ TransnetScrape

\* nothing is stored and nothing is published: the call is all there is
CallInit ==
    /\ TrackerInit
    /\ Raw_Data = <<>>
    /\ Listings(upstream) = 0
    /\ call \in Calls
    /\ result = NoRet

CallSpec == CallInit /\ [][CallNext]_vars

(***************************************************************************)
(* Properties.  A run is over when pc = "done"; its locals and the history *)
(* variables then describe the whole run.                                  *)
(***************************************************************************)
\* the rows the run appended to Raw_Data
Appended == SubSeq(Raw_Data, rows_at_start + 1, Len(Raw_Data))

\* the dedup key of a row, and the keys stored when the run started
RowKey(row) == <<row.Source, row.Tender_ID>>

KeysAtStart == {RowKey(Raw_Data[i]) : i \in 1..rows_at_start}

TenderKey(t) == <<t.source, t.tender_id>>

\* the number of entries of ks that repeat an earlier entry
Repeats(ks) == Cardinality({i \in DOMAIN ks : \E j \in 1..(i - 1) : ks[j] = ks[i]})

\* this run and the one before both read the stored ids and got from every
\* portal all it publishes (upstream never changes in a behaviour: the two
\* runs were made against the same snapshot)
SecondOfTwoRuns == pc = "done" /\ Undisturbed /\ prev.state # "none"

\* C1: a run made right after a run that persisted what it found, against
\* the same upstream snapshot, appends no row and sends no alert.  Stated
\* for the runs in which nothing else went wrong: both read the stored ids
\* and both were answered by every portal.
C1_SecondRunAddsNothing ==
    (SecondOfTwoRuns /\ prev.state = "added")
        => (Appended = <<>> /\ alerts = <<>>)

\* C2: a candidate whose (source, tender_id) is stored in Raw_Data when the
\* run starts is never appended and never alerted on by that run, whether
\* or not the read of the stored ids succeeds.
C2_KnownKeyNeverAdded ==
    /\ \A i \in DOMAIN Appended : RowKey(Appended[i]) \notin KeysAtStart
    /\ \A i \in DOMAIN alerts : TenderKey(alerts[i].tender) \notin KeysAtStart

\* C3: of the candidates of one run that have the same (source, tender_id)
\* only the first is accepted: the run appends no two rows and sends no two
\* alerts with the same key, and every later one is counted as discarded.
C3_SameRunDuplicateDropped ==
    pc = "done" =>
        /\ Repeats([i \in DOMAIN Appended |-> RowKey(Appended[i])]) = 0
        /\ Repeats([i \in DOMAIN alerts |-> TenderKey(alerts[i].tender)]) = 0
        /\ log.discarded >=
              Repeats([i \in DOMAIN all_new_tenders |->
                          TenderKey(all_new_tenders[i])])

\* C4: no two rows of Raw_Data have the same (source, tender_id).
C4_StoredKeysUnique ==
    Repeats([i \in DOMAIN Raw_Data |-> RowKey(Raw_Data[i])]) = 0

\* the loop over the scrapers is over
LoopOver == pc \in {"filter", "persist", "alert", "report", "complete", "done"}

\* what the scrapers that did not raise returned, less the stored ids read
RECURSIVE FromUnfailed(_)
FromUnfailed(k) ==
    IF k = 0 THEN <<>>
    ELSE FromUnfailed(k - 1) \o
         (IF scraped[Scrapers[k]].state = "returned"
          THEN SelectSeq(scraped[Scrapers[k]].val,
                         LAMBDA t : t.tender_id \notin existing_ids)
          ELSE <<>>)

Insurance(ts) == SelectSeq(ts, LAMBDA t : t.category = "insurance")

Keys(ts) == [i \in DOMAIN ts |-> TenderKey(ts[i])]

RowKeys(rows) == [i \in DOMAIN rows |-> RowKey(rows[i])]

\* C5: a scraper that raises, or whose portal does not answer, stops
\* neither the run nor the other scrapers: every scraper is called, the
\* candidates of the run are those of the scrapers that did not raise, and
\* the rows added and the figures reported are made of exactly these.
C5_AdapterFailureIsolated ==
    /\ pc # "crashed"
    /\ LoopOver =>
          /\ \A n \in Range(Scrapers) : scraped[n].state # "pending"
          /\ all_new_tenders = FromUnfailed(Len(Scrapers))
    /\ pc = "done" =>
          /\ log.processed + log.discarded = Len(FromUnfailed(Len(Scrapers)))
          /\ add_ret = "True" =>
                RowKeys(Appended) = Keys(Insurance(FromUnfailed(Len(Scrapers))))

C5_Witness ==
    /\ pc = "done"
    /\ scraped["transnet"].state = "raised"
    /\ scraped["etenders"].val # <<>>
    /\ Appended # <<>>

\* C7: alerts are sent only after the batch was added: an alert is only
\* ever sent for a tender whose row this run appended, and a run whose
\* add_tenders call failed sends none.
C7_AlertsOnlyAfterAdded ==
    /\ alerts # <<>> => add_ret = "True"
    /\ \A i \in DOMAIN alerts :
          /\ i <= Len(Appended)
          /\ Appended[i] = SheetRow(alerts[i].tender)

C7_Witness ==
    /\ pc = "done"
    /\ add_ret = "False"
    /\ filtered_tenders # <<>>
    /\ alerts = <<>>

\* C10: the filter of run() keeps a new tender if and only if its category
\* is insurance, whether or not its buyer is a priority buyer; when the
\* batch is added, every kept tender gets its row and its alert attempt.
C10_NarrowPolicy ==
    pc = "done" =>
        /\ Candidates(filtered_tenders) = Candidates(Insurance(all_new_tenders))
        /\ add_ret = "True" =>
              /\ RowKeys(Appended) = Keys(Insurance(all_new_tenders))
              /\ Keys([i \in DOMAIN alerts |-> alerts[i].tender]) =
                    Keys(Insurance(all_new_tenders))

C10_Witness ==
    /\ pc = "done"
    /\ add_ret = "True"
    /\ \E i \in DOMAIN all_new_tenders :
          /\ all_new_tenders[i].priority_buyer
          /\ all_new_tenders[i].category # "insurance"
    /\ \E i \in DOMAIN Appended : Appended[i].Priority_Buyer = "No"
    /\ Len(alerts) = Len(Appended)

\* C6: whatever fails (the read of the stored ids, a scraper, add_tenders,
\* an alert, the dashboard update), no exception leaves run(): a run that
\* has started reaches its report step and then returns.
C6_RunAlwaysReturns ==
    /\ [](pc # "crashed")
    /\ (pc = "load") ~> (pc = "report")
    /\ (pc = "report") ~> (pc = "done")

C6_Witness ==
    /\ pc = "done"
    /\ read_failed
    /\ scraped["transnet"].state = "raised"
    /\ add_ret = "False"
    /\ log.processed >= 1

\* C8: a run whose add_tenders call fails leaves Raw_Data as it found it,
\* and the next run against the same snapshot (every portal answering in
\* both) takes exactly the same candidates for new and calls add_tenders
\* for them again.
C8_FailedBatchRetried ==
    /\ add_ret = "False" => Appended = <<>>
    /\ (pc = "done" /\ AllAnswered /\ prev.state = "not added") =>
          /\ Candidates(all_new_tenders) = prev.cands
          /\ add_ret # "none"

\* the candidates the scrapers returned to the run
RECURSIVE Found(_)
Found(k) ==
    IF k = 0 THEN <<>>
    ELSE Found(k - 1) \o
         (IF scraped[Scrapers[k]].state = "returned"
          THEN scraped[Scrapers[k]].val ELSE <<>>)

RECURSIVE SumValue(_)
SumValue(rows) ==
    IF rows = <<>> THEN 0 ELSE rows[1].Value_ZAR + SumValue(Tail(rows))

\* C9: the figures a run reports are those of what it did: the count and
\* the value of the stats, "New tenders added" and "Processed" are the
\* number and the value of the rows the run appended, and the discard
\* count is the number of candidates found that did not become a row.
C9_ReportTrueCounts ==
    pc = "done" =>
        /\ stats["insurance"].count = Len(Appended)
        /\ stats["insurance"].total_value = SumValue(Appended)
        /\ log.added = Len(Appended)
        /\ log.processed = Len(Appended)
        /\ log.discarded = Len(Found(Len(Scrapers))) - Len(Appended)


\* C11: a run can be made under the broad policy: every new tender that is
\* categorized or whose buyer is a priority buyer is accepted (gets its row
\* when the batch is added), and every new tender that is insurance or whose
\* buyer is a priority buyer is alerted on; so is an uncategorized tender
\* of a priority buyer.
C11_BroadPolicy ==
    (pc = "done" /\ add_ret = "True") =>
        \A i \in DOMAIN all_new_tenders :
            LET t == all_new_tenders[i]
            IN  /\ (t.category # "uncategorized" \/ t.priority_buyer)
                      => TenderKey(t) \in Range(RowKeys(Appended))
                /\ (t.category = "insurance" \/ t.priority_buyer)
                      => TenderKey(t) \in
                            Range(Keys([j \in DOMAIN alerts |-> alerts[j].tender]))

\* the call of fn has returned
Done(fn) == call.fn = fn /\ result.state = "returned"

\* C12: days_remaining is never negative: calculate_days_remaining returns
\* an integer >= 0 for every closing-date text (past, future, malformed,
\* empty, null), and the days_remaining auto_fix_tender leaves on a tender
\* that had one >= 0 is >= 0.
C12_DaysRemainingNotNegative ==
    /\ Done("calculate_days_remaining") => result.val \in Nat
    /\ Done("auto_fix_tender") => result.val.val \in Nat

C12_Witness ==
    /\ Done("calculate_days_remaining")
    /\ call.closing_date_str = s_2025_12_31
    /\ result.val = 0


\* the calendar days from the day of the clock reading to the date
CalendarDays(date, now) == toordinal(date) - toordinal(now)

\* C13: days_remaining is max(0, closing date - reference date) in whole
\* calendar days, whatever the time of day of the call: "18 Mar" on
\* 2026-01-10 gives 67, and a text that is a full date in a supported
\* format gives the calendar days to that date.
C13_WholeCalendarDays ==
    Done("calculate_days_remaining") =>
        /\ (/\ call.closing_date_str = s_18_Mar
            /\ call.now.Y = 2026 /\ call.now.m = 1 /\ call.now.d = 10)
              => result.val = 67
        /\ \A date \in try_formats(call.closing_date_str, 1) :
              result.val = Max0(CalendarDays(date, call.now))


\* day and month m of the year the claim infers at the clock reading now:
\* this year's if it is after today, next year's if it is before today,
\* either if it is today
InferredDates(d, m, now) ==
    {date \in {[Y |-> y, m |-> m, d |-> d] : y \in {now.Y, now.Y + 1}} :
        /\ date.Y = now.Y => CalendarDays(date, now) >= 0
        /\ date.Y = now.Y + 1 =>
              CalendarDays([Y |-> now.Y, m |-> m, d |-> d], now) <= 0}

\* C14: a day and month without a year is normalized to that day of the
\* current year if it is still to come, of the following year otherwise
\* ("18 Mar" on 2026-04-01 gives 2027-03-18), and the date inferred is a
\* calendar date not earlier than the reference date.
C14_YearInference ==
    /\ (Done("_parse_date_flexible") /\ call.date_str \in {s_18_Mar, s_closing_18_Mar})
          => /\ ~result.val.exc
             /\ result.val.val \in {strftime(x) : x \in InferredDates(18, 3, call.now)}
    /\ (Done("parse_easytenders_date")
            /\ call.raw_date_text \in {s_18_Mar, s_closing_18_Mar})
          => result.val \in {strftime(x) : x \in InferredDates(18, 3, call.now)}
    /\ (Done("parse_easytenders_date") /\ MatchesIsoPrefix(result.val))
          => \E date \in strptime(result.val, "%Y-%m-%d") :
                CalendarDays(date, call.now) >= 0


\* C15: the date normalizer round-trips: for every calendar date and every
\* supported full format, _parse_date_flexible on the date written in that
\* format returns the date as YYYY-MM-DD.
C15_RoundTrip ==
    Done("_parse_date_flexible") =>
        \A date \in CalendarDates, i \in DOMAIN SupportedFormats :
            call.date_str = format_date(date, SupportedFormats[i])
                => result.val = [exc |-> FALSE, val |-> strftime(date)]

C15_Witness ==
    /\ Done("_parse_date_flexible")
    /\ call.date_str = format_date([Y |-> 2024, m |-> 2, d |-> 29], "%d %b %Y")
    /\ result.val.val = <<"2","0","2","4","-","0","2","-","2","9">>


\* the categories one of whose keywords, as configured, occurs in the text
\* whatever the letter case of either
MatchingCategories(text) ==
    {i \in DOMAIN CATEGORIES :
        \E k \in DOMAIN CATEGORIES[i].keywords :
            Contains(lower(text), lower(CATEGORIES[i].keywords[k]))}

\* C16: categorize_tender returns the first category, in declared order,
\* one of whose configured keywords occurs in the text of title and
\* description as a case-insensitive substring, and "uncategorized" if
\* there is none; it returns nothing else.
C16_CategorizeFirstMatch ==
    Done("categorize_tender") =>
        LET hits == MatchingCategories(call.title \o <<" ">> \o call.description)
        IN  /\ result.val \in {CATEGORIES[i].name : i \in DOMAIN CATEGORIES}
                              \cup {"uncategorized"}
            /\ hits = {} => result.val = "uncategorized"
            /\ hits # {} =>
                  result.val = CATEGORIES[CHOOSE i \in hits : \A j \in hits : i <= j].name


\* a canonical date: YYYY-MM-DD, a calendar date
IsCanonicalDate(s) == Len(s) = 10 /\ strptime(s, "%Y-%m-%d") # {}

\* C17: a closing date that cannot be parsed is not fatal: when the Sheets
\* API works, add_tenders persists every tender of the batch, whatever the
\* closing-date texts in it, and every closing date it stores is a
\* canonical date or empty (empty when the text matches no format).
C17_UnparseableDateNotFatal ==
    (Done("add_tenders") /\ result.val.fault = "none") =>
        /\ result.val.ret
        /\ Len(Raw_Data) = Len(call.tenders_data)
        /\ \A i \in DOMAIN Raw_Data :
              \/ Raw_Data[i].Closing_Date = <<>>
              \/ IsCanonicalDate(Raw_Data[i].Closing_Date)


\* the tender_ids of a list of tenders
Ids(ts) == [i \in DOMAIN ts |-> ts[i].tender_id]

\* C18: an adapter gives a listing the same tender_id in every run,
\* whatever the process and the calendar year of the run (the ids are those
\* of a run of 2026 in a process with seed 0), and gives listings with
\* distinct native ids distinct tender_ids.
C18_StableIds ==
    /\ Done("EasyTendersScraper.scrape") =>
          Ids(result.val) =
              Ids(EasyTendersScraper_scrape(Pages(call.cards, call.more), 2026, 0))
    /\ Done("TransnetScraper.scrape") =>
          /\ Ids(result.val) =
                Ids(TransnetScraper_scrape([ok |-> TRUE, rows |-> call.rows],
                                           FALSE, 2026).val)
          /\ \A i, j \in DOMAIN call.rows :
                call.rows[i].number # call.rows[j].number =>
                    \A a \in Range(TransnetRow(call.rows[i], call.year)),
                       b \in Range(TransnetRow(call.rows[j], call.year)) :
                        a.tender_id # b.tender_id
    /\ Done("ETendersScraper.scrape") =>
          \A i, j \in DOMAIN call.data :
              call.data[i].id # call.data[j].id =>
                  \A a \in Range(ETendersTry(call.data[i]).val),
                     b \in Range(ETendersTry(call.data[j]).val) :
                      a.tender_id # b.tender_id


\* the call of scrape() of one of the three adapters has returned
ScrapeDone ==
    \/ Done("ETendersScraper.scrape")
    \/ Done("EasyTendersScraper.scrape")
    \/ Done("TransnetScraper.scrape")

\* C19: no tender returned by scrape() of any of the three adapters has an
\* empty title.
C19_NoEmptyTitle ==
    ScrapeDone => \A i \in DOMAIN result.val : result.val[i].title # <<>>


\* the item is well formed: no field the loop body reads is null
WellFormed(item) == item.organ_of_State # None

\* what the loop body appends for each well-formed item, in order
RECURSIVE OfWellFormed(_)
OfWellFormed(data) ==
    IF data = <<>> THEN <<>>
    ELSE (IF WellFormed(data[1]) THEN ETendersItem(data[1]) ELSE <<>>)
         \o OfWellFormed(Tail(data))

\* C20: a listing whose processing raises is the only one skipped: scrape()
\* returns what it returns for the well-formed listings of the fetch, those
\* before and those after the one that raised.
C20_OnlyFailedListingSkipped ==
    Done("ETendersScraper.scrape") => result.val = OfWellFormed(call.data)

C20_Witness ==
    /\ Done("ETendersScraper.scrape")
    /\ Len(call.data) = 3
    /\ ~WellFormed(call.data[2])
    /\ Ids(result.val) = << <<"ET", call.data[1].id>>, <<"ET", call.data[3].id>> >>

\* C21: scrape() of an adapter never raises, whatever fails while it
\* reaches and reads its portal; eTenders and Transnet return what the
\* portal publishes or, when they cannot get it, the empty list.
C21_ScrapeNeverRaises ==
    \A n \in Range(Scrapers) :
        /\ scraped[n].state # "raised"
        /\ (n \in {"etenders", "transnet"} /\ scraped[n].state = "returned")
              => scraped[n].val \in {<<>>, AnsweredResult(n).val}

\* the orders in which the scrapers can be run
Orders ==
    {o \in [DOMAIN Scrapers -> Range(Scrapers)] :
        \A i, j \in DOMAIN Scrapers : o[i] = o[j] => i = j}

\* all_new_tenders after the first k turns of the loop run in the given
\* order, every scraper doing what it did in this run
RECURSIVE AllNewInOrder(_, _)
AllNewInOrder(order, k) ==
    IF k = 0 THEN <<>>
    ELSE run_scraper(AllNewInOrder(order, k - 1), k, existing_ids,
                     [exc |-> scraped[order[k]].state = "raised",
                      val |-> scraped[order[k]].val]).all_new

\* what add_tenders does with the tenders kept of those, the Sheets API
\* working, on the worksheet as the run found it
AddedInOrder(order) ==
    add_tenders(SubSeq(Raw_Data, 1, rows_at_start),
                SelectSeq(AllNewInOrder(order, Len(Scrapers)), keep_tender),
                "none")

\* C22: the order of the adapters does not affect the outcome: the
\* adapters returning what they returned in this run and the store holding
\* what it held, the loop run in any order leads to the same set of rows
\* appended and the same set of tenders alerted on as this run's.
C22_OrderIrrelevant ==
    (pc = "done" /\ add_ret = "True") =>
        \A order \in Orders :
            /\ AddedInOrder(order).ret
            /\ Range(SubSeq(AddedInOrder(order).ws, rows_at_start + 1,
                            Len(AddedInOrder(order).ws))) = Range(Appended)
            /\ Range(AddedInOrder(order).tenders) =
                  {alerts[i].tender : i \in DOMAIN alerts}

C22_Witness ==
    /\ pc = "done"
    /\ add_ret = "True"
    /\ \E i, j \in DOMAIN Appended : Appended[i].Source # Appended[j].Source
    /\ Len(alerts) = Len(Appended)

\* C23: the known ids are read once per run, before any scraper is called,
\* and stay as read until the run is over: existing_ids changes only in
\* the step that reads it (and when the locals go at the end of the
\* process), that step is taken once, at the start of the run, and the
\* ids of the tenders a scraper returns are not added to it.
C23_KnownKeysReadOnce ==
    [][/\ existing_ids' # existing_ids => (pc = "load" \/ pc' = "idle")
       /\ pc' = "load" => pc = "idle"
       /\ pc = "load" => \A n \in Range(Scrapers) : scraped[n].state = "pending"
      ]_vars

C23_Witness ==
    /\ pc = "done"
    /\ existing_ids # {}
    /\ \E i \in DOMAIN all_new_tenders :
          all_new_tenders[i].tender_id \notin existing_ids

\* C24: the alerts are best effort.  Every turn of the alert loop, whether
\* its alert was sent or failed (SMTP error, no credentials), leaves the
\* stored rows as they are, records one attempt for the next tender of the
\* batch and no other, and goes on to the next tender, or to the report
\* when the batch is through: no failed alert ends the run and none is
\* tried again.
C24_AlertsBestEffort ==
    [][pc = "alert" =>
          /\ Raw_Data' = Raw_Data
          /\ Len(alerts') = Len(alerts) + 1
          /\ SubSeq(alerts', 1, Len(alerts)) = alerts
          /\ alerts'[Len(alerts')].tender = filtered_tenders[Len(alerts')]
          /\ pc' = IF Len(alerts') = Len(filtered_tenders) THEN "report"
                   ELSE "alert"
      ]_vars

C24_Witness ==
    /\ pc = "done"
    /\ Len(alerts) = 2
    /\ Len(Appended) = 2
    /\ ~alerts[1].ret
    /\ alerts[2].ret
    /\ alerts[1].tender # alerts[2].tender

\* the identity keys of the rows of a worksheet
StoredKeys(ws) == {RowKey(ws[i]) : i \in DOMAIN ws}

\* C25: the keys held in Raw_Data only grow: no step of a run, whether the
\* run adds its batch, fails to add it or is left by an exception, and no
\* step between two runs, takes a key out of Raw_Data.
C25_StoredKeysGrow ==
    [][StoredKeys(Raw_Data) \subseteq StoredKeys(Raw_Data')]_vars

C25_Witness ==
    /\ runs = 2
    /\ pc = "done"
    /\ KeysAtStart # {}
    /\ StoredKeys(Raw_Data) # KeysAtStart
    /\ prev.state # "none"

RECURSIVE AllReturned(_)
AllReturned(k) ==
    IF k = 0 THEN <<>>
    ELSE AllReturned(k - 1) \o
         (IF scraped[Scrapers[k]].state = "returned" THEN scraped[Scrapers[k]].val
          ELSE <<>>)

\* C27: when reading the stored ids fails, the run has the empty set for
\* them and goes on: it is not left by the exception, and every tender a
\* scraper returns is taken for new, those already stored included.
C27_FailedReadAllNew ==
    read_failed =>
        /\ existing_ids = {}
        /\ pc \notin {"idle", "load", "crashed"}
        /\ LoopOver => all_new_tenders = AllReturned(Len(Scrapers))

C27_Witness ==
    /\ read_failed
    /\ pc = "done"
    /\ \E i \in DOMAIN all_new_tenders : TenderKey(all_new_tenders[i]) \in KeysAtStart

\* C28: a run makes one alert attempt per row it appended, in the order of
\* the rows: when its alert loop is over there are as many attempts as rows
\* appended, the i-th for the tender of the i-th row, and none at all when
\* nothing was appended (no tender kept, or add_tenders failed).
C28_OneAlertPerRow ==
    pc \in {"report", "complete", "done"} =>
        /\ Len(alerts) = Len(Appended)
        /\ Keys([i \in DOMAIN alerts |-> alerts[i].tender]) = RowKeys(Appended)
        /\ (filtered_tenders = <<>> \/ add_ret # "True") =>
              (alerts = <<>> /\ Appended = <<>>)

C28_Witness ==
    /\ pc = "report"
    /\ Len(Appended) = 2
    /\ Len(alerts) = 2
    /\ \A i \in DOMAIN alerts : ~alerts[i].ret
    /\ RowKey(Appended[1]) # RowKey(Appended[2])

\* C29: every row the pipeline appends to Raw_Data has Alert_Sent = "No",
\* and no step, of this run or of a later one, changes the Alert_Sent of a
\* row that is stored, whether its alert was sent or failed.
C29_AlertSentStaysNo ==
    [][/\ Len(Raw_Data') >= Len(Raw_Data)
       /\ \A i \in DOMAIN Raw_Data' :
             Raw_Data'[i].Alert_Sent =
                IF i \in DOMAIN Raw_Data THEN Raw_Data[i].Alert_Sent ELSE "No"
      ]_vars

C29_Witness ==
    /\ runs = 2
    /\ pc = "done"
    /\ rows_at_start > 0
    /\ \E i \in DOMAIN alerts : alerts[i].ret /\ Appended[i].Alert_Sent = "No"
    /\ \A i \in DOMAIN Raw_Data : Raw_Data[i].Alert_Sent = "No"

\* the cards of all the searches of the call, in the order they are read
RECURSIVE FetchedUpTo(_)
FetchedUpTo(k) ==
    IF k = 0 THEN <<>>
    ELSE FetchedUpTo(k - 1) \o Pages(call.cards, call.more)[k].cards

Fetched == FetchedUpTo(NSearches)

\* the lower-cased (title, buyer) pair of a card or of a tender
Pair(x) == <<lower(x.title), lower(x.buyer)>>

\* C30: EasyTendersScraper.scrape returns at most one tender per
\* lower-cased (title, buyer) pair over all its searches, and it is the
\* first card with that pair: its title, buyer and closing text are those
\* of the first card read that has the pair.  Cards with the same title
\* and different buyers each give a tender, and these have the same
\* tender_id.
C30_OnePerTitleAndBuyer ==
    Done("EasyTendersScraper.scrape") =>
        /\ \A i, j \in DOMAIN result.val :
              /\ Pair(result.val[i]) = Pair(result.val[j]) => i = j
              /\ result.val[i].title = result.val[j].title
                    => result.val[i].tender_id = result.val[j].tender_id
        /\ \A i \in DOMAIN result.val :
              \E k \in DOMAIN Fetched :
                  /\ Fetched[k].title = result.val[i].title
                  /\ Fetched[k].buyer = result.val[i].buyer
                  /\ strip(remove(Fetched[k].closing, Closing)) =
                        result.val[i].closing_date
                  /\ \A l \in 1..(k - 1) : Pair(Fetched[l]) # Pair(Fetched[k])
        /\ \A k, l \in DOMAIN Fetched :
              (/\ Fetched[k].title # <<>>
               /\ Fetched[k].title = Fetched[l].title
               /\ lower(Fetched[k].buyer) # lower(Fetched[l].buyer))
                  => \E i, j \in DOMAIN result.val :
                        /\ i # j
                        /\ Pair(result.val[i]) = Pair(Fetched[k])
                        /\ Pair(result.val[j]) = Pair(Fetched[l])

C30_Witness ==
    /\ Done("EasyTendersScraper.scrape")
    /\ call.cards = <<[title |-> s_bond, buyer |-> s_Xco, closing |-> s_closing_18_Mar],
                      [title |-> s_bond, buyer |-> s_ARC, closing |-> <<>>]>>
    /\ call.more = <<[title |-> s_BOND, buyer |-> s_Xco, closing |-> <<>>]>>
    /\ Len(result.val) = 2
    /\ result.val[1].tender_id = result.val[2].tender_id
    /\ result.val[1].buyer # result.val[2].buyer

=============================================================================
